---------------------------- MODULE Spec2Model ----------------------------
(***************************************************************************)
(* The coverage-feedback and corpus-scheduling core:                       *)
(*   - MapFeedback with its Max/Min reducers   (afl/src/feedbacks/mod.rs)  *)
(*   - RandScheduler and the Scheduler trait   (libafl/src/schedulers/     *)
(*                                              mod.rs)                    *)
(*   - ProbabilitySamplingScheduler            (libafl/src/schedulers/     *)
(*                                              probabilistic_sampling.rs) *)
(*                                                                         *)
(* The feedback and the schedulers share no state, so each has its own     *)
(* variables and its own specification; a specification leaves the other   *)
(* subsystem's variables untouched.                                        *)
(*                                                                         *)
(* A Rust panic (a failed unwrap, an index out of bounds, a failed         *)
(* debug_assert!) is the outcome "Panic": the call does not return, and    *)
(* nothing runs on that object afterwards.                                 *)
(***************************************************************************)
EXTENDS Integers, Sequences, FiniteSets, TLC

VARIABLES
    \* ---- MapFeedback<T, R, O> ----
    reducer,      \* the type parameter R: "Max" or "Min"
    ctor,         \* the constructor call that built the feedback
    history_map,  \* MapFeedback.history_map : Vec<T>
    call,         \* the last Feedback call: its name, the observer it looked up, its outcome
    log,          \* the maps of the observers the is_interesting calls found, oldest first
    \* ---- the campaign state the schedulers work on ----
    scheduler,    \* which Scheduler is instantiated: "Rand" or "Probability"
    debug_build,  \* whether debug_assert! is compiled in (cfg(debug_assertions))
    corpus,       \* ids of the testcases the corpus holds
    next_id,      \* the id the corpus gives to the next testcase added
    current,      \* *corpus.current() : Option<CorpusId>
    parent_id,    \* parent_id of each testcase ever added : Option<CorpusId>
    meta,         \* state.metadata_map().get::<ProbabilityMetadata>() : Option
    map_order,    \* the order in which meta.map (a HashMap) iterates over its keys
    sched_call,   \* the last scheduler call: its name, its arguments, its outcome
    \* ---- what the AflScheduler metadata operations work on ----
    tc_meta,      \* SchedulerTestcaseMetadata of each testcase in the corpus : Option
    last_hash,    \* AflScheduler::last_hash()
    psmeta,       \* state.metadata::<SchedulerMetadata>() : Option, with its n_fuzz
    afl_call      \* the last AflScheduler call: its name, its arguments, its outcome

fb_vars    == <<reducer, ctor, history_map, call, log>>
sched_vars == <<scheduler, debug_build, corpus, next_id, current, parent_id, meta,
               map_order, sched_call>>
afl_vars   == <<tc_meta, last_hash, psmeta, afl_call>>
vars       == <<fb_vars, sched_vars, afl_vars>>

---------------------------------------------------------------------------
(* Bounds of the model *)

\* cells hold the values 0..MaxVal
MaxVal == 2
\* a history map or an observer map holds up to MaxLen cells (an observer map one more)
MaxLen == 2
\* the is_interesting calls logged under SpecFold
MaxCalls == 2
\* the corpus hands out the ids 1..MaxIds
MaxIds == 2
\* TestcaseScore::compute returns scores up to MaxScore
MaxScore == 2
\* total_probability stays within -MaxTotal..MaxTotal
MaxTotal == 3
\* next_float() returns a multiple of 1/RandDen
RandDen == 5
\* under the AflScheduler specifications the corpus hands out the ids 1..MaxTestcases
MaxTestcases == 3
\* a handicap is set to a value up to MaxHandicap
MaxHandicap == 5
\* n_fuzz holds NFuzzSize buckets
NFuzzSize == 2
\* hash_simple() of the map observer returns a value up to MaxHash
MaxHash == 3
\* the largest value of a bucket of n_fuzz: u32::MAX, the u32 narrowed
U32_MAX == 3

---------------------------------------------------------------------------
(* Results and options *)

Ok(v)    == [kind |-> "Ok", val |-> v, err |-> ""]
Err(e)   == [kind |-> "Err", val |-> 0, err |-> e]
Panic    == [kind |-> "Panic", val |-> 0, err |-> ""]
NoResult == [kind |-> "None", val |-> 0, err |-> ""]

\* Option<&O> as observers.get::<O>(&self.name) gives it; the observer is its map()
SomeObserver(m) == [some |-> TRUE, map |-> m]
NoObserver      == [some |-> FALSE, map |-> <<>>]

Cells == 0..MaxVal

MapsOfLen(n) == [1..n -> Cells]

Maps(lens) == UNION {MapsOfLen(n) : n \in lens}

---------------------------------------------------------------------------
(* Option<CorpusId>, Option<f64>: the empty set is None, {x} is Some(x) *)

None    == {}
Some(x) == {x}
Unwrap(o) == CHOOSE x \in o : TRUE

\* the orders a HashMap may iterate the keys S in
Orders(S) == {p \in [1..Cardinality(S) -> S] : \A x \in S : \E i \in DOMAIN p : p[i] = x}

Restrict(f, S) == [x \in S |-> f[x]]

Extend(f, x, v) == [y \in DOMAIN f \cup {x} |-> IF y = x THEN v ELSE f[y]]

RECURSIVE SumOver(_, _)
SumOver(f, S) ==
    IF S = {} THEN 0
    ELSE LET x == CHOOSE x \in S : TRUE IN f[x] + SumOver(f, S \ {x})

\* the sum of a map's values
Sum(f) == SumOver(f, DOMAIN f)

---------------------------------------------------------------------------
(* Reducers *)

\* T::default() of an integer cell type
T_default == 0

MaxReducer_reduce_lt(first, second) == IF first < second THEN first ELSE second

\* MaxReducer::reduce
MaxReducer_reduce(first, second) == IF first > second THEN first ELSE second

MinReducer_reduce_gt(first, second) == IF first > second THEN first ELSE second

\* MinReducer::reduce
MinReducer_reduce(first, second) == IF first < second THEN first ELSE second

\* R::reduce, R being the feedback's reducer type
reduce(R, first, second) ==
    IF R = "Max" THEN MaxReducer_reduce(first, second)
                 ELSE MinReducer_reduce(first, second)

---------------------------------------------------------------------------
(* MapFeedback *)

\* MapFeedback::new(name, map_size)
new(map_size) == [i \in 1..map_size |-> T_default]

\* MapFeedback::with_history_map(name, history_map)
with_history_map(h) == h

novel_cell_uncounted(st, i, reduced) ==
    [st EXCEPT !.history_map[i] = reduced]

novel_cell_unwritten(st, i, reduced) ==
    [st EXCEPT !.interesting = st.interesting + 1]

novel_cell_next_index(st, i, reduced) ==
    [history_map |-> IF i + 1 \in DOMAIN st.history_map
                       THEN [st.history_map EXCEPT ![i + 1] = reduced]
                       ELSE st.history_map,
     interesting |-> st.interesting + 1]

\* the body of `if history != reduced`: the cell is overwritten and counted
novel_cell(st, i, reduced) ==
    [history_map |-> [st.history_map EXCEPT ![i] = reduced],
     interesting |-> st.interesting + 1]

\* The loop `for i in 0..size` of is_interesting, from cell i on (cells are
\* numbered from 1 here).  st holds self.history_map and the local
\* `interesting`; obs is observer.map().  Indexing self.history_map past its
\* end panics, with the cells before it already updated.  `interesting` is a
\* u32 that counts cells: it cannot overflow for maps this short.
RECURSIVE is_interesting_loop(_, _, _, _)
is_interesting_loop(R, st, obs, i) ==
    IF i > Len(obs) THEN [history_map |-> st.history_map, ret |-> Ok(st.interesting)]
    ELSE IF i > Len(st.history_map) THEN [history_map |-> st.history_map, ret |-> Panic]
    ELSE LET history == st.history_map[i]
             item    == obs[i]
             reduced == reduce(R, history, item)
         IN  IF history # reduced
               THEN is_interesting_loop(R, novel_cell(st, i, reduced), obs, i + 1)
               ELSE is_interesting_loop(R, st, obs, i + 1)

\* MapFeedback::is_interesting: the new history map and the outcome.
\* `observers.get::<O>(&self.name).unwrap()` panics when there is no observer.
is_interesting(R, hist, observer) ==
    IF ~observer.some THEN [history_map |-> hist, ret |-> Panic]
    ELSE is_interesting_loop(R, [history_map |-> hist, interesting |-> 0], observer.map, 1)

\* no call runs on a feedback whose last call panicked
FeedbackAlive == call.ret.kind # "Panic"

\* Bookkeeping of the call record: n when this is_interesting call is handed
\* the observer of the call just before it, an is_interesting call that
\* returned Ok(n); -1 otherwise.
Again(observer) ==
    IF call.op = "is_interesting" /\ call.ret.kind = "Ok" /\ call.observer = observer
      THEN call.ret.val ELSE -1

IsInterestingCall(observer) ==
    /\ FeedbackAlive
    /\ LET r == is_interesting(reducer, history_map, observer)
       IN  /\ history_map' = r.history_map
           /\ call' = [op |-> "is_interesting", observer |-> observer, ret |-> r.ret,
                       again |-> Again(observer)]
    /\ UNCHANGED <<reducer, ctor>>

\* the Feedback methods that MapFeedback leaves at the trait's defaults, and
\* name(): none touches the history map
OtherCall(op) ==
    /\ FeedbackAlive
    /\ call' = [op |-> op, observer |-> NoObserver, ret |-> Ok(0), again |-> -1]
    /\ UNCHANGED <<reducer, ctor, history_map>>

\* the observers an is_interesting call may be handed: none under the
\* feedback's name, or one whose map has one of the lengths lens
Observers(lens) == {NoObserver} \cup {SomeObserver(m) : m \in Maps(lens)}

FeedbackInit ==
    /\ reducer \in {"Max", "Min"}
    /\ \/ \E n \in 0..MaxLen :
            /\ ctor = [fn |-> "new", map_size |-> n]
            /\ history_map = new(n)
       \/ \E h \in Maps(0..MaxLen) :
            /\ ctor = [fn |-> "with_history_map", map_size |-> Len(h)]
            /\ history_map = with_history_map(h)
    /\ call = [op |-> "none", observer |-> NoObserver, ret |-> NoResult, again |-> -1]
    /\ log = <<>>

---------------------------------------------------------------------------
(* The campaign state of the schedulers                                    *)
(*                                                                         *)
(* A state s is the record [corpus, next_id, current, parent_id, meta].    *)
(* A handler is an operator from s and its arguments to the set of its     *)
(* possible outcomes [s, ret, removed]: the state it leaves, what it       *)
(* returns, and (on_remove, on_replace) what meta.map.remove(&id) gave.    *)
(* The order a HashMap iterates its keys in is kept beside s (map_order):   *)
(* a call that iterates is handed it (`order`), and it changes only with   *)
(* the map.                                                                *)
(*                                                                         *)
(* Weights are f64 in the code.  Here they are integers of small           *)
(* magnitude, on which f64 addition, subtraction and comparison are exact. *)
(***************************************************************************)

Ids == 1..MaxIds

\* what TestcaseScore::compute may return: an error, or a score (negative ones included)
Computes == {Err("compute")} \cup {Ok(p) : p \in (-1)..MaxScore}

\* what the Rand hands out: next_float() = n / RandDen, in [0, 1)
Draws == 0..(RandDen - 1)

\* ProbabilityMetadata::new()
ProbabilityMetadata_new ==
    [some |-> TRUE, map |-> << >>, total_probability |-> 0]

\* metadata_map().get::<ProbabilityMetadata>() of a state that holds none
NoMetadata ==
    [some |-> FALSE, map |-> << >>, total_probability |-> 0]

Outcome(s, ret) == [s |-> s, ret |-> ret, removed |-> None]

\* Corpus::add: the testcase gets the next id; it has no parent yet
Corpus_add(s) ==
    [s EXCEPT !.corpus = @ \cup {s.next_id},
              !.parent_id = Extend(@, s.next_id, None),
              !.next_id = @ + 1]

\* Corpus::remove
Corpus_remove(s, id) ==
    [s EXCEPT !.corpus = @ \ {id},
              !.parent_id = Restrict(@, s.corpus \ {id})]

\* HashMap::insert(id, prob) on meta.map
HashMap_insert(m, id, prob) == [m EXCEPT !.map = Extend(m.map, id, prob)]

\* HashMap::remove(&id) on meta.map: the metadata left, and the Option<f64> returned
HashMap_remove(m, id) ==
    IF id \in DOMAIN m.map
      THEN [meta |-> [m EXCEPT !.map = Restrict(m.map, DOMAIN m.map \ {id})],
            removed |-> Some(m.map[id])]
      ELSE [meta |-> m, removed |-> None]

\* `if let Some(prob) = meta.map.remove(&id) { meta.total_probability -= prob; }`
remove_probability_total_kept(m, id) == HashMap_remove(m, id)

remove_probability(m, id) ==
    LET r == HashMap_remove(m, id)
    IN  [r EXCEPT !.meta.total_probability =
                     IF r.removed # None THEN @ - Unwrap(r.removed) ELSE @]

\* ProbabilitySamplingScheduler::store_probability, compute being what
\* F::compute returns for the testcase
store_probability(s, id, compute, debug) ==
    IF id \notin s.corpus THEN Outcome(s, Err("KeyNotFound"))
    ELSE IF compute.kind = "Err" THEN Outcome(s, compute)
    ELSE IF debug /\ ~(compute.val >= 0) THEN Outcome(s, Panic)
    ELSE IF ~s.meta.some THEN Outcome(s, Panic)
    ELSE LET inserted == HashMap_insert(s.meta, id, compute.val)
         IN  Outcome([s EXCEPT !.meta = [inserted EXCEPT !.total_probability = @ + compute.val]],
                     Ok(0))

set_current_scheduled_dropped(s, id_opt) == s

\* Scheduler::set_current_scheduled, the trait's default
set_current_scheduled(s, id_opt) == [s EXCEPT !.current = id_opt]

\* RandScheduler::on_add
RandScheduler_on_add(s, id) ==
    IF id \notin s.corpus THEN Outcome(s, Err("KeyNotFound"))
    ELSE Outcome([s EXCEPT !.parent_id[id] = s.current], Ok(0))

\* random_corpus_id!(state.corpus(), state.rand_mut()): the nth id of the
\* corpus, nth = rand.below(count) being the share `draw` of count
random_corpus_id(s, draw) ==
    LET nth == (Cardinality(s.corpus) * draw) \div RandDen
    IN  CHOOSE id \in s.corpus : Cardinality({j \in s.corpus : j < id}) = nth

\* RandScheduler::next
RandScheduler_next(s, draw) ==
    IF Cardinality(s.corpus) = 0 THEN Outcome(s, Err("Empty"))
    ELSE LET id == random_corpus_id(s, draw)
         IN  Outcome(set_current_scheduled(s, Some(id)), Ok(id))

\* RemovableScheduler::on_remove and on_replace, the trait's defaults
RemovableScheduler_on_remove(s, id) == Outcome(s, Ok(0))

RemovableScheduler_on_replace(s, id) == Outcome(s, Ok(0))

\* ProbabilitySamplingScheduler::on_add
ProbabilitySamplingScheduler_on_add(s, id, compute, debug) ==
    IF id \notin s.corpus THEN Outcome(s, Err("KeyNotFound"))
    ELSE LET linked == [s EXCEPT !.parent_id[id] = s.current]
             ready  == IF ~linked.meta.some
                         THEN [linked EXCEPT !.meta = ProbabilityMetadata_new]
                         ELSE linked
         IN  store_probability(ready, id, compute, debug)

ProbabilitySamplingScheduler_on_remove_default(s, id) == RemovableScheduler_on_remove(s, id)

\* ProbabilitySamplingScheduler::on_remove
ProbabilitySamplingScheduler_on_remove(s, id) ==
    IF ~s.meta.some THEN Outcome(s, Panic)
    ELSE LET r == remove_probability(s.meta, id)
         IN  [s |-> [s EXCEPT !.meta = r.meta], ret |-> Ok(0), removed |-> r.removed]

ProbabilitySamplingScheduler_on_replace_kept(s, id, compute, debug) ==
    IF ~s.meta.some THEN Outcome(s, Panic)
    ELSE store_probability(s, id, compute, debug)

\* ProbabilitySamplingScheduler::on_replace
ProbabilitySamplingScheduler_on_replace(s, id, compute, debug) ==
    IF ~s.meta.some THEN Outcome(s, Panic)
    ELSE LET r == remove_probability(s.meta, id)
         IN  [store_probability([s EXCEPT !.meta = r.meta], id, compute, debug)
                 EXCEPT !.removed = r.removed]

\* The loop `for (idx, prob) in &meta.map` of next, from the i-th key of the
\* iteration on, k being the sum so far: the first key with k >= threshold,
\* or ret if there is none.  threshold = total_probability * draw / RandDen.
RECURSIVE next_loop(_, _, _, _, _, _)
next_loop(m, order, draw, i, k, ret) ==
    IF i > Len(order) THEN ret
    ELSE LET idx  == order[i]
             prob == m.map[idx]
         IN  IF (k + prob) * RandDen >= m.total_probability * draw
               THEN idx
               ELSE next_loop(m, order, draw, i + 1, k + prob, ret)

\* ProbabilitySamplingScheduler::next, draw being what next_float() returns
\* and order the order meta.map iterates in; `ret` starts as keys().last()
ProbabilitySamplingScheduler_next(s, draw, order) ==
    IF Cardinality(s.corpus) = 0 THEN Outcome(s, Err("Empty"))
    ELSE IF ~s.meta.some THEN Outcome(s, Panic)
    ELSE IF order = << >> THEN Outcome(s, Panic)
    ELSE LET ret == next_loop(s.meta, order, draw, 1, 0, order[Len(order)])
         IN  Outcome(set_current_scheduled(s, Some(ret)), Ok(ret))

\* the handlers of the scheduler that is instantiated
on_add(sch, s, id, compute, debug) ==
    IF sch = "Rand" THEN RandScheduler_on_add(s, id)
                    ELSE ProbabilitySamplingScheduler_on_add(s, id, compute, debug)

on_remove(sch, s, id) ==
    IF sch = "Rand" THEN RemovableScheduler_on_remove(s, id)
                    ELSE ProbabilitySamplingScheduler_on_remove(s, id)

on_replace(sch, s, id, compute, debug) ==
    IF sch = "Rand" THEN RemovableScheduler_on_replace(s, id)
                    ELSE ProbabilitySamplingScheduler_on_replace(s, id, compute, debug)

next(sch, s, draw, order) ==
    IF sch = "Rand" THEN RandScheduler_next(s, draw)
                    ELSE ProbabilitySamplingScheduler_next(s, draw, order)

\* the state the variables hold
State ==
    [corpus |-> corpus, next_id |-> next_id, current |-> current,
     parent_id |-> parent_id, meta |-> meta]

\* no call runs on a campaign whose last call panicked
SchedAlive == sched_call.ret.kind # "Panic"

\* total_probability stays within the model's range
InRange(s) ==
    /\ s.meta.total_probability <= MaxTotal
    /\ s.meta.total_probability >= -MaxTotal

\* The orders meta.map may iterate in after the call op(id) left it as map,
\* order being the order before.  A HashMap iterates over its table: a
\* removal and an insert that overwrites an entry leave the other keys where
\* they are, an insert of a new key may land anywhere and may rehash the table.
HashMap_orders(op, id, order, map) ==
    LET kept == SelectSeq(order, LAMBDA k : k \in DOMAIN map)
        held == {order[i] : i \in DOMAIN order}
    IN  IF DOMAIN map \subseteq held /\ ~(op = "on_replace" /\ id \in DOMAIN map)
          THEN {kept}
          ELSE Orders(DOMAIN map)

\* sched_call and afl_call while the last call was none of theirs
NoSchedCall ==
    [op |-> "none", id |-> 0, compute |-> NoResult, draw |-> 0,
     ret |-> NoResult, removed |-> None]

NoAflCall == [op |-> "none", id |-> 0, arg |-> None, old |-> 0, ret |-> NoResult]

\* the step to outcome out of the call op(id), compute and draw being its inputs
Becomes(op, id, compute, draw, out) ==
    /\ InRange(out.s)
    /\ map_order' \in HashMap_orders(op, id, map_order, out.s.meta.map)
    /\ corpus' = out.s.corpus
    /\ next_id' = out.s.next_id
    /\ current' = out.s.current
    /\ parent_id' = out.s.parent_id
    /\ meta' = out.s.meta
    /\ sched_call' = [op |-> op, id |-> id, compute |-> compute, draw |-> draw,
                      ret |-> out.ret, removed |-> out.removed]
    /\ afl_call' = NoAflCall
    /\ UNCHANGED <<scheduler, debug_build, tc_meta, last_hash, psmeta>>

NoCompute == NoResult

\* the corpus a state is built with: the testcases 1..n, none with a parent,
\* none scheduled, and no ProbabilityMetadata yet
Corpus_with(n) ==
    [corpus |-> 1..n, next_id |-> n + 1, current |-> None,
     parent_id |-> [id \in 1..n |-> None], meta |-> NoMetadata]

\* StdState::new(rand, corpus, ...) on a corpus of n testcases, and the
\* scheduler's new()
SchedInitWith(n) ==
    /\ scheduler \in {"Rand", "Probability"}
    /\ debug_build \in BOOLEAN
    /\ corpus = Corpus_with(n).corpus
    /\ next_id = Corpus_with(n).next_id
    /\ current = Corpus_with(n).current
    /\ parent_id = Corpus_with(n).parent_id
    /\ meta = Corpus_with(n).meta
    /\ map_order = << >>
    /\ sched_call = NoSchedCall

SchedInit == SchedInitWith(0)

\* the schedulers, under a specification of the feedback alone
SchedIdle == SchedInit /\ scheduler = "Rand" /\ debug_build = FALSE

\* the feedback, under a specification of the schedulers alone
FeedbackIdle ==
    /\ reducer = "Max"
    /\ ctor = [fn |-> "new", map_size |-> 0]
    /\ history_map = new(0)
    /\ call = [op |-> "none", observer |-> NoObserver, ret |-> NoResult, again |-> -1]
    /\ log = << >>

---------------------------------------------------------------------------
(* The metadata operations of AflScheduler                                 *)
(*                                                                         *)
(* They work on a state a that holds, beside the corpus fields of s, the   *)
(* SchedulerTestcaseMetadata of every testcase (tc_meta), the scheduler's  *)
(* last_hash and the state's SchedulerMetadata (psmeta).                   *)
(***************************************************************************)

with_n_fuzz_entry_unset(depth, n_fuzz_entry) ==
    [depth |-> depth, handicap |-> 0, n_fuzz_entry |-> 0]

\* SchedulerTestcaseMetadata::with_n_fuzz_entry(depth, n_fuzz_entry)
with_n_fuzz_entry(depth, n_fuzz_entry) ==
    [depth |-> depth, handicap |-> 0, n_fuzz_entry |-> n_fuzz_entry]

\* SchedulerMetadata with n_fuzz of len buckets, all zero
SchedulerMetadata_new(len) == [some |-> TRUE, n_fuzz |-> [i \in 1..len |-> 0]]

\* state.metadata::<SchedulerMetadata>() of a state that holds none
NoSchedulerMetadata == [some |-> FALSE, n_fuzz |-> << >>]

\* Corpus::add of a testcase: it has no SchedulerTestcaseMetadata yet
Testcase_add(a) ==
    [Corpus_add(a) EXCEPT !.tc_meta = Extend(@, a.next_id, None)]

on_add_metadata_root_zero(a, id) ==
    LET current_id == a.current
    IN  IF current_id # None /\ Unwrap(current_id) \notin a.corpus
          THEN Outcome(a, Err("KeyNotFound"))
        ELSE IF current_id # None /\ a.tc_meta[Unwrap(current_id)] = None
          THEN Outcome(a, Err("KeyNotFound"))
        ELSE IF id \notin a.corpus THEN Outcome(a, Err("KeyNotFound"))
        ELSE LET depth == IF current_id # None
                            THEN Unwrap(a.tc_meta[Unwrap(current_id)]).depth + 1
                            ELSE 0
             IN  Outcome([a EXCEPT !.tc_meta[id] = Some(with_n_fuzz_entry(depth, a.last_hash)),
                                   !.parent_id[id] = current_id],
                         Ok(0))

on_add_metadata_parent_depth(a, id) ==
    LET current_id == a.current
    IN  IF current_id # None /\ Unwrap(current_id) \notin a.corpus
          THEN Outcome(a, Err("KeyNotFound"))
        ELSE IF current_id # None /\ a.tc_meta[Unwrap(current_id)] = None
          THEN Outcome(a, Err("KeyNotFound"))
        ELSE IF id \notin a.corpus THEN Outcome(a, Err("KeyNotFound"))
        ELSE LET depth == IF current_id # None
                            THEN Unwrap(a.tc_meta[Unwrap(current_id)]).depth
                            ELSE 1
             IN  Outcome([a EXCEPT !.tc_meta[id] = Some(with_n_fuzz_entry(depth, a.last_hash)),
                                   !.parent_id[id] = current_id],
                         Ok(0))

\* AflScheduler::on_add_metadata
on_add_metadata(a, id) ==
    LET current_id == a.current
    IN  IF current_id # None /\ Unwrap(current_id) \notin a.corpus
          THEN Outcome(a, Err("KeyNotFound"))
        ELSE IF current_id # None /\ a.tc_meta[Unwrap(current_id)] = None
          THEN Outcome(a, Err("KeyNotFound"))
        ELSE IF id \notin a.corpus THEN Outcome(a, Err("KeyNotFound"))
        ELSE LET depth == IF current_id # None
                            THEN Unwrap(a.tc_meta[Unwrap(current_id)]).depth
                            ELSE 0
             IN  Outcome([a EXCEPT !.tc_meta[id] = Some(with_n_fuzz_entry(depth + 1, a.last_hash)),
                                   !.parent_id[id] = current_id],
                         Ok(0))

saturating_add_wrapping(x, y) == (x + y) % (U32_MAX + 1)

\* u32::saturating_add
saturating_add(x, y) == IF x + y > U32_MAX THEN U32_MAX ELSE x + y

on_evaluation_metadata_raw_hash(a, observer) ==
    IF observer = None THEN Outcome(a, Err("KeyNotFound"))
    ELSE IF ~a.psmeta.some THEN Outcome(a, Err("KeyNotFound"))
    ELSE IF Len(a.psmeta.n_fuzz) = 0 THEN Outcome(a, Panic)
    ELSE LET hash == Unwrap(observer) % Len(a.psmeta.n_fuzz)
         IN  Outcome([a EXCEPT !.psmeta.n_fuzz[hash + 1] = saturating_add(@, 1),
                               !.last_hash = Unwrap(observer)],
                     Ok(0))

\* AflScheduler::on_evaluation_metadata, observer being what
\* observers.get(self.map_observer_handle()) returns: None, or the observer
\* with its hash_simple()
on_evaluation_metadata(a, observer) ==
    IF observer = None THEN Outcome(a, Err("KeyNotFound"))
    ELSE IF ~a.psmeta.some THEN Outcome(a, Err("KeyNotFound"))
    ELSE IF Len(a.psmeta.n_fuzz) = 0 THEN Outcome(a, Panic)
    ELSE LET hash == Unwrap(observer) % Len(a.psmeta.n_fuzz)
         IN  Outcome([a EXCEPT !.psmeta.n_fuzz[hash + 1] = saturating_add(@, 1),
                               !.last_hash = hash],
                     Ok(0))

handicap_aged_by_one(h) == IF h > 0 THEN h - 1 ELSE h

handicap_aged_above_three(h) == IF h >= 4 THEN h - 4 ELSE h

\* the handicap on_next_metadata leaves
handicap_aged(h) ==
    IF h >= 4 THEN h - 4
    ELSE IF h > 0 THEN h - 1
    ELSE h

\* AflScheduler::on_next_metadata
on_next_metadata(a, next_id_arg) ==
    LET current_id == a.current
    IN  IF current_id = None THEN Outcome(a, Ok(0))
        ELSE LET id == Unwrap(current_id)
             IN  IF id \notin a.corpus THEN Outcome(a, Err("KeyNotFound"))
                 ELSE IF a.tc_meta[id] = None THEN Outcome(a, Err("KeyNotFound"))
                 ELSE LET tcmeta == Unwrap(a.tc_meta[id])
                      IN  Outcome([a EXCEPT !.tc_meta[id] =
                                      Some([tcmeta EXCEPT !.handicap = handicap_aged(@)])],
                                  Ok(0))

\* SchedulerTestcaseMetadata::set_handicap on the metadata of testcase id
set_handicap(a, id, h) ==
    [a EXCEPT !.tc_meta[id] = Some([Unwrap(@) EXCEPT !.handicap = h])]

\* the state the variables hold, for the AflScheduler operations
AflState ==
    [corpus |-> corpus, next_id |-> next_id, current |-> current,
     parent_id |-> parent_id, meta |-> meta,
     tc_meta |-> tc_meta, last_hash |-> last_hash, psmeta |-> psmeta]

\* the step to outcome out of the AflScheduler call op(id) with the argument
\* arg, old being the value the call read and is to replace
AflBecomes(op, id, arg, old, out) ==
    /\ corpus' = out.s.corpus
    /\ next_id' = out.s.next_id
    /\ current' = out.s.current
    /\ parent_id' = out.s.parent_id
    /\ tc_meta' = out.s.tc_meta
    /\ last_hash' = out.s.last_hash
    /\ psmeta' = out.s.psmeta
    /\ afl_call' = [op |-> op, id |-> id, arg |-> arg, old |-> old, ret |-> out.ret]
    /\ sched_call' = NoSchedCall
    /\ UNCHANGED <<scheduler, debug_build, meta, map_order>>

\* no call runs on a campaign whose last call panicked
AflAlive == afl_call.ret.kind # "Panic"

\* a scheduler that implements AflScheduler, and the state it is given:
\* no testcase has metadata, last_hash is whatever the scheduler starts
\* with, SchedulerMetadata is there (n_fuzz all zero) or not
AflInit ==
    /\ tc_meta = << >>
    /\ last_hash \in 0..MaxHash
    /\ psmeta \in {NoSchedulerMetadata} \cup {SchedulerMetadata_new(len) : len \in 1..NFuzzSize}
    /\ afl_call = NoAflCall

\* the AflScheduler state under a specification of the feedback or of the
\* other schedulers
AflIdle ==
    /\ tc_meta = << >>
    /\ last_hash = 0
    /\ psmeta = NoSchedulerMetadata
    /\ afl_call = NoAflCall

---------------------------------------------------------------------------
(* The feedback, called in any order with any observers *)

\* Feedback::is_interesting, the observer shorter, as long or longer than the history map
IsInteresting ==
    /\ \E observer \in Observers(0..(MaxLen + 1)) : IsInterestingCall(observer)
    /\ UNCHANGED <<log, sched_vars, afl_vars>>

\* Feedback::append_metadata, the trait's default
AppendMetadata == OtherCall("append_metadata") /\ UNCHANGED <<log, sched_vars, afl_vars>>

\* Feedback::discard_metadata, the trait's default
DiscardMetadata == OtherCall("discard_metadata") /\ UNCHANGED <<log, sched_vars, afl_vars>>

\* MapFeedback::name
Name == OtherCall("name") /\ UNCHANGED <<log, sched_vars, afl_vars>>

InitFeedback == FeedbackInit /\ SchedIdle /\ AflIdle

NextFeedback ==
    \/ IsInteresting
    \/ AppendMetadata
    \/ DiscardMetadata
    \/ Name

SpecFeedback == InitFeedback /\ [][NextFeedback]_vars

---------------------------------------------------------------------------
(* Claims about MapFeedback *)

\* the cells of hist that the observer's map obs makes novel
NovelCells(R, hist, obs) == {i \in 1..Len(hist) : reduce(R, hist[i], obs[i]) # hist[i]}

C3_SecondCallFindsNothing ==
    [][ ( /\ call.op = "is_interesting"
          /\ call.ret.kind = "Ok"
          /\ call'.op = "is_interesting"
          /\ call'.observer = call.observer )
        => ( /\ call'.ret = Ok(0)
             /\ history_map' = history_map )
      ]_vars

\* a Min feedback was called twice with one observation: first n >= 1, then 0
C3_Witness ==
    /\ reducer = "Min"
    /\ call.op = "is_interesting"
    /\ call.again >= 1
    /\ call.ret = Ok(0)

\* C4: with the Max reducer no call lowers a history cell.
C4_MaxHistoryNeverDecreases ==
    [][ reducer = "Max"
        => /\ DOMAIN history_map' = DOMAIN history_map
           /\ \A i \in DOMAIN history_map : history_map'[i] >= history_map[i]
      ]_vars

\* a Max feedback built by new() has raised a cell to the largest value
C4_Witness ==
    /\ reducer = "Max"
    /\ ctor.fn = "new"
    /\ call.op = "is_interesting"
    /\ call.ret.kind = "Ok"
    /\ call.ret.val >= 1
    /\ \E i \in DOMAIN history_map : history_map[i] = MaxVal

\* C5: an observation whose length differs from the history map's makes
\* is_interesting fail with SizeMismatch and leaves the history map as it is.
C5_LengthMismatchIsSizeMismatch ==
    [][ ( /\ call'.op = "is_interesting"
          /\ call'.observer.some
          /\ Len(call'.observer.map) # Len(history_map) )
        => ( /\ call'.ret = Err("SizeMismatch")
             /\ history_map' = history_map )
      ]_vars

\* C6: with no observer under the feedback's name is_interesting returns
\* the error KeyNotFound, without aborting, and leaves the history map as it is.
C6_MissingObserverIsKeyNotFound ==
    [][ ( /\ call'.op = "is_interesting"
          /\ ~call'.observer.some )
        => ( /\ call'.ret = Err("KeyNotFound")
             /\ history_map' = history_map )
      ]_vars

---------------------------------------------------------------------------
(* A feedback built by new(), with the observations it has been shown *)

\* Feedback::is_interesting on an observer of the history map's length (or
\* on none), the observer's map appended to the log
LoggedIsInteresting ==
    /\ Len(log) < MaxCalls
    /\ \E observer \in Observers({Len(history_map)}) :
          /\ IsInterestingCall(observer)
          /\ log' = IF observer.some THEN Append(log, observer.map) ELSE log
    /\ UNCHANGED <<sched_vars, afl_vars>>

InitFold == FeedbackInit /\ ctor.fn = "new" /\ SchedIdle /\ AflIdle

NextFold ==
    \/ LoggedIsInteresting
    \/ AppendMetadata
    \/ DiscardMetadata
    \/ Name

SpecFold == InitFold /\ [][NextFold]_vars

\* o_1[i], ..., o_k[i]: what the logged observations held in cell i
Column(observations, i) == [j \in 1..Len(observations) |-> observations[j][i]]

\* the fold of the reducer over values, from acc
RECURSIVE reduce_fold(_, _, _)
reduce_fold(R, acc, values) ==
    IF values = <<>> THEN acc
    ELSE reduce_fold(R, reduce(R, acc, Head(values)), Tail(values))

\* C2: a feedback built by new(map_size) keeps map_size cells, and after
\* the is_interesting calls with observations o_1..o_k, with any other calls
\* in between, cell i holds the fold of the reducer over
\* (T::default(), o_1[i], ..., o_k[i]).
C2_HistoryIsFoldOfObservations ==
    ctor.fn = "new" =>
        /\ Len(history_map) = ctor.map_size
        /\ \A i \in 1..ctor.map_size :
              history_map[i] = reduce_fold(reducer, T_default, Column(log, i))

\* two different observations have been folded into a Max history map, each
\* deciding one cell, and another call has run since
C2_Witness ==
    /\ reducer = "Max"
    /\ ctor.fn = "new"
    /\ log = << <<1, 0>>, <<0, 2>> >>
    /\ history_map = <<1, 2>>
    /\ call.op = "append_metadata"

---------------------------------------------------------------------------
(* The scheduler's handlers, called in any order with any ids *)

\* Corpus::add alone
CorpusAdd ==
    /\ SchedAlive
    /\ next_id <= MaxIds
    /\ Becomes("corpus_add", next_id, NoCompute, 0, Outcome(Corpus_add(State), Ok(next_id)))
    /\ UNCHANGED fb_vars

\* Corpus::remove alone
CorpusRemove ==
    /\ SchedAlive
    /\ \E id \in corpus :
          Becomes("corpus_remove", id, NoCompute, 0, Outcome(Corpus_remove(State, id), Ok(0)))
    /\ UNCHANGED fb_vars

\* Scheduler::on_add
OnAdd ==
    /\ SchedAlive
    /\ \E id \in Ids, compute \in Computes :
          Becomes("on_add", id, compute, 0, on_add(scheduler, State, id, compute, debug_build))
    /\ UNCHANGED fb_vars

\* RemovableScheduler::on_remove
OnRemove ==
    /\ SchedAlive
    /\ \E id \in Ids :
          Becomes("on_remove", id, NoCompute, 0, on_remove(scheduler, State, id))
    /\ UNCHANGED fb_vars

\* RemovableScheduler::on_replace
OnReplace ==
    /\ SchedAlive
    /\ \E id \in Ids, compute \in Computes :
          Becomes("on_replace", id, compute, 0,
                  on_replace(scheduler, State, id, compute, debug_build))
    /\ UNCHANGED fb_vars

\* Scheduler::next
Next ==
    /\ SchedAlive
    /\ \E draw \in Draws :
          Becomes("next", 0, NoCompute, draw, next(scheduler, State, draw, map_order))
    /\ UNCHANGED fb_vars

\* Scheduler::set_current_scheduled
SetCurrentScheduled ==
    /\ SchedAlive
    /\ \E id_opt \in {None} \cup {Some(id) : id \in Ids} :
          Becomes("set_current_scheduled", IF id_opt = None THEN 0 ELSE Unwrap(id_opt),
                  NoCompute, 0, Outcome(set_current_scheduled(State, id_opt), Ok(0)))
    /\ UNCHANGED fb_vars

InitSched == SchedInit /\ FeedbackIdle /\ AflIdle

NextSched ==
    \/ CorpusAdd
    \/ CorpusRemove
    \/ OnAdd
    \/ OnRemove
    \/ OnReplace
    \/ Next
    \/ SetCurrentScheduled

SpecSched == InitSched /\ [][NextSched]_vars

---------------------------------------------------------------------------
(* The metadata handlers alone, in any order, on a corpus that was filled  *)
(* before the scheduler saw it (as tests::test_prob_sampling fills it)     *)

InitMeta == (\E n \in 0..MaxIds : SchedInitWith(n)) /\ FeedbackIdle /\ AflIdle

NextMeta ==
    \/ OnAdd
    \/ OnRemove
    \/ OnReplace

SpecMeta == InitMeta /\ [][NextMeta]_vars

---------------------------------------------------------------------------
(* The engine: every testcase added to the corpus is announced by on_add,  *)
(* every testcase removed by on_remove, before anything else is called     *)

\* corpus.add(testcase), then scheduler.on_add(state, id)
EngineAdd ==
    /\ SchedAlive
    /\ next_id <= MaxIds
    /\ \E compute \in Computes :
          Becomes("on_add", next_id, compute, 0,
                  on_add(scheduler, Corpus_add(State), next_id, compute, debug_build))
    /\ UNCHANGED fb_vars

\* corpus.remove(id), then scheduler.on_remove(state, id, &testcase)
EngineRemove ==
    /\ SchedAlive
    /\ \E id \in corpus :
          Becomes("on_remove", id, NoCompute, 0,
                  on_remove(scheduler, Corpus_remove(State, id), id))
    /\ UNCHANGED fb_vars

InitEngine == SchedInit /\ FeedbackIdle /\ AflIdle

NextEngine ==
    \/ EngineAdd
    \/ EngineRemove
    \/ Next

SpecEngine == InitEngine /\ [][NextEngine]_vars

---------------------------------------------------------------------------
(* Selection: on a corpus filled before the scheduler saw it, testcases    *)
(* are announced by on_add and drawn by next, and the engine records what  *)
(* it schedules                                                            *)

InitSelect == (\E n \in 0..MaxIds : SchedInitWith(n)) /\ FeedbackIdle /\ AflIdle

NextSelect ==
    \/ OnAdd
    \/ Next
    \/ SetCurrentScheduled

SpecSelect == InitSelect /\ [][NextSelect]_vars

---------------------------------------------------------------------------
(* The AflScheduler metadata operations, called as a scheduler calls them  *)

\* corpus.add(testcase), then on_add_metadata(state, id), on a corpus that
\* hands out the ids 1..n
AflAddUpTo(n) ==
    /\ AflAlive
    /\ next_id <= n
    /\ AflBecomes("on_add_metadata", next_id, None, 0,
                  on_add_metadata(Testcase_add(AflState), next_id))
    /\ UNCHANGED fb_vars

\* on_evaluation_metadata(state, input, observers)
OnEvaluationMetadata ==
    /\ AflAlive
    /\ \E observer \in {None} \cup {Some(h) : h \in 0..MaxHash} :
          LET hash == Unwrap(observer) % Len(psmeta.n_fuzz)
              old  == IF observer # None /\ psmeta.some /\ Len(psmeta.n_fuzz) > 0
                        THEN psmeta.n_fuzz[hash + 1] ELSE 0
          IN  AflBecomes("on_evaluation_metadata", 0, observer, old,
                         on_evaluation_metadata(AflState, observer))
    /\ UNCHANGED fb_vars

\* on_next_metadata(state, next_id)
OnNextMetadata ==
    /\ AflAlive
    /\ \E next_id_arg \in {None} \cup {Some(id) : id \in Ids} :
          LET tracked == /\ current # None
                         /\ Unwrap(current) \in corpus
                         /\ tc_meta[Unwrap(current)] # None
              old     == IF tracked THEN Unwrap(tc_meta[Unwrap(current)]).handicap ELSE 0
          IN  AflBecomes("on_next_metadata", 0, next_id_arg, old,
                         on_next_metadata(AflState, next_id_arg))
    /\ UNCHANGED fb_vars

\* tcmeta.set_handicap(h) on a testcase that has its metadata
SetHandicap ==
    /\ AflAlive
    /\ \E id \in corpus, h \in 0..MaxHandicap :
          /\ tc_meta[id] # None
          /\ AflBecomes("set_handicap", id, Some(h), Unwrap(tc_meta[id]).handicap,
                        Outcome(set_handicap(AflState, id, h), Ok(0)))
    /\ UNCHANGED fb_vars

AflAdd == AflAddUpTo(MaxTestcases)

AflAddFew == AflAddUpTo(MaxIds)

\* testcases are added and scheduled
InitDepth == SchedIdle /\ FeedbackIdle /\ AflInit

NextDepth ==
    \/ AflAdd
    \/ SetCurrentScheduled

SpecDepth == InitDepth /\ [][NextDepth]_vars

\* testcases are added and scheduled, handicaps set and aged
InitHandicap == SchedIdle /\ FeedbackIdle /\ AflInit /\ last_hash = 0 /\ ~psmeta.some

NextHandicap ==
    \/ AflAddFew
    \/ SetCurrentScheduled
    \/ SetHandicap
    \/ OnNextMetadata

SpecHandicap == InitHandicap /\ [][NextHandicap]_vars

\* executions are evaluated, one after the other
InitFuzz == SchedIdle /\ FeedbackIdle /\ AflInit

NextFuzz == OnEvaluationMetadata

SpecFuzz == InitFuzz /\ [][NextFuzz]_vars

\* One testcase stays scheduled and on_next_metadata keeps being called:
\* the corpus holds roots whose handicaps were set to any values
InitAge ==
    /\ FeedbackIdle
    /\ scheduler = "Rand"
    /\ debug_build = FALSE
    /\ meta = NoMetadata
    /\ map_order = << >>
    /\ sched_call = NoSchedCall
    /\ last_hash = 0
    /\ psmeta = NoSchedulerMetadata
    /\ afl_call = NoAflCall
    /\ \E n \in 1..MaxIds :
          /\ corpus = 1..n
          /\ next_id = n + 1
          /\ parent_id = [id \in 1..n |-> None]
          /\ current \in {Some(id) : id \in 1..n}
          /\ tc_meta \in [1..n -> {Some([with_n_fuzz_entry(1, 0) EXCEPT !.handicap = h]) :
                                       h \in 0..MaxHandicap}]

NextAge == OnNextMetadata

SpecAge == InitAge /\ [][NextAge]_vars /\ WF_vars(OnNextMetadata)

---------------------------------------------------------------------------
(* Claims about the schedulers *)

\* C7: after any on_add, on_remove and on_replace calls, an on_add for an
\* id that has a weight already among them, total_probability is the sum of
\* the values in map.
C7_TotalIsSumOfMap ==
    meta.some => meta.total_probability = Sum(meta.map)

\* the ids the corpus has handed out and holds no more
Removed == {id \in 1..(next_id - 1) : id \notin corpus}

\* C8: with every addition announced by on_add and every removal by
\* on_remove, an id that next() returns is in the corpus, and is none of the
\* ids removed before.
C8_NextReturnsIdInCorpus ==
    (sched_call.op = "next" /\ sched_call.ret.kind = "Ok")
        => /\ sched_call.ret.val \in corpus
           /\ sched_call.ret.val \notin Removed

\* the probability scheduler has returned an id after a testcase with a
\* weight was removed, while another was left
C8_Witness ==
    /\ scheduler = "Probability"
    /\ sched_call.op = "next"
    /\ sched_call.ret.kind = "Ok"
    /\ Removed # {}
    /\ DOMAIN meta.map = corpus

\* C9: next() returns the error Empty when the corpus holds no testcase,
\* and an id, with no other error and no abort, when it holds one, whatever
\* corpus additions, on_add, on_remove and on_replace calls came before.
C9_NextIsEmptyOrAnId ==
    sched_call.op = "next"
        => IF corpus = {} THEN sched_call.ret = Err("Empty")
                          ELSE sched_call.ret.kind = "Ok"

\* C10: on_remove(id) with ProbabilityMetadata present: if map holds id,
\* the id leaves map, total_probability goes down by its weight and every
\* other entry stays; if map does not hold id, map and total_probability
\* stay; the call succeeds either way.
C10_OnRemoveFrame ==
    [][ ( /\ sched_call'.op = "on_remove"
          /\ scheduler = "Probability"
          /\ meta.some )
        => LET id == sched_call'.id
           IN  /\ sched_call'.ret = Ok(0)
               /\ meta'.some
               /\ IF id \in DOMAIN meta.map
                    THEN /\ DOMAIN meta'.map = DOMAIN meta.map \ {id}
                         /\ \A j \in DOMAIN meta'.map : meta'.map[j] = meta.map[j]
                         /\ meta'.total_probability = meta.total_probability - meta.map[id]
                         /\ sched_call'.removed = Some(meta.map[id])
                    ELSE /\ meta'.map = meta.map
                         /\ meta'.total_probability = meta.total_probability
                         /\ sched_call'.removed = None
      ]_vars

\* on_remove took an id of weight 1 out of a map that keeps another id,
\* and the total went down to what is left
C10_Witness ==
    /\ scheduler = "Probability"
    /\ sched_call.op = "on_remove"
    /\ sched_call.removed = Some(1)
    /\ sched_call.id \notin DOMAIN meta.map
    /\ DOMAIN meta.map # {}
    /\ meta.total_probability = Sum(meta.map)

\* C11: from a state that holds ProbabilityMetadata, on_replace(id, prev)
\* leaves the map, the total and the result that on_remove(id) followed by
\* on_add(id) of the same testcase (the same score) leaves, whether id had
\* a weight or not.
C11_ReplaceIsRemoveThenAdd ==
    [][ ( /\ sched_call'.op = "on_replace"
          /\ scheduler = "Probability"
          /\ meta.some )
        => LET id      == sched_call'.id
               removed == ProbabilitySamplingScheduler_on_remove(State, id)
               added   == ProbabilitySamplingScheduler_on_add(removed.s, id,
                                                              sched_call'.compute, debug_build)
           IN  /\ removed.ret = Ok(0)
               /\ meta'.map = added.s.meta.map
               /\ meta'.total_probability = added.s.meta.total_probability
               /\ sched_call'.ret = added.ret
      ]_vars

\* on_replace gave an id of weight 1 the weight 2, another id keeping its own
C11_Witness ==
    /\ scheduler = "Probability"
    /\ sched_call.op = "on_replace"
    /\ sched_call.ret = Ok(0)
    /\ sched_call.removed = Some(1)
    /\ sched_call.compute = Ok(2)
    /\ Cardinality(DOMAIN meta.map) = 2
    /\ meta.total_probability = Sum(meta.map)

\* C12: an on_add or on_replace whose score is negative reports a failure
\* (the assertion in a debug build, an error value in a release build), and
\* no weight in map is negative.
C12_NegativeScoreIsRejected ==
    /\ ( /\ scheduler = "Probability"
         /\ sched_call.op \in {"on_add", "on_replace"}
         /\ sched_call.compute.kind = "Ok"
         /\ sched_call.compute.val < 0 )
       => sched_call.ret.kind \in {"Err", "Panic"}
    /\ \A id \in DOMAIN meta.map : meta.map[id] >= 0

RECURSIVE CumulativeWeight(_, _, _)
CumulativeWeight(map, order, i) ==
    IF i = 0 THEN 0 ELSE CumulativeWeight(map, order, i - 1) + map[order[i]]

\* the first key of the iteration whose cumulative weight reaches
\* total_probability * draw / RandDen, the last key if none does
FirstReaching(m, order, draw) ==
    LET reaching == {i \in 1..Len(order) :
                        CumulativeWeight(m.map, order, i) * RandDen
                            >= m.total_probability * draw}
    IN  IF reaching = {} THEN order[Len(order)]
        ELSE order[CHOOSE i \in reaching : \A j \in reaching : i <= j]

\* C16: next() with draw u returns the first id, in the one order map
\* iterates in, whose cumulative weight is >= total_probability * u (the
\* last id if there is none), and leaves that order alone; with exactly two
\* ids of equal positive weight every draw above 1/2 returns one id (the
\* second of the iteration) and every draw below 1/2 the other.
C16_NextWalksCumulativeWeights ==
    [][ ( /\ sched_call'.op = "next"
          /\ scheduler = "Probability"
          /\ sched_call'.ret.kind = "Ok" )
        => LET draw == sched_call'.draw
               ids  == DOMAIN meta.map
           IN  /\ sched_call'.ret.val = FirstReaching(meta, map_order, draw)
               /\ map_order' = map_order
               /\ ( /\ Cardinality(ids) = 2
                    /\ \A i, j \in ids : meta.map[i] = meta.map[j] /\ meta.map[i] > 0 )
                  => /\ 2 * draw > RandDen => sched_call'.ret.val = map_order[2]
                     /\ 2 * draw < RandDen => sched_call'.ret.val = map_order[1]
      ]_vars

---------------------------------------------------------------------------
(* Claims about the AflScheduler metadata operations *)

\* C14: on_add_metadata of a testcase added while no id is scheduled
\* succeeds and gives it depth 1 and no parent; added while P is scheduled,
\* P a testcase with its metadata, it succeeds and gives it depth(P) + 1 and
\* the parent P.
C14_DepthIsParentDepthPlusOne ==
    [][ afl_call'.op = "on_add_metadata"
        => LET id == afl_call'.id
           IN  IF current = None
                 THEN /\ afl_call'.ret = Ok(0)
                      /\ Unwrap(tc_meta'[id]).depth = 1
                      /\ parent_id'[id] = None
                 ELSE LET P == Unwrap(current)
                      IN  (P \in corpus /\ tc_meta[P] # None)
                            => /\ afl_call'.ret = Ok(0)
                               /\ Unwrap(tc_meta'[id]).depth = Unwrap(tc_meta[P]).depth + 1
                               /\ parent_id'[id] = Some(P)
      ]_vars

\* add A, select A, add B, select B, add C: depths 1, 2, 3 and parents
\* none, A, B
C14_Witness ==
    /\ afl_call.op = "on_add_metadata"
    /\ afl_call.id = 3
    /\ corpus = {1, 2, 3}
    /\ \A id \in corpus : tc_meta[id] # None /\ Unwrap(tc_meta[id]).depth = id
    /\ parent_id = <<None, Some(1), Some(2)>>

\* C15: on_add_metadata of a testcase added while no id is scheduled (a
\* root) attaches metadata with depth 0 and n_fuzz_entry = last_hash.
C15_RootHasDepthZero ==
    [][ ( /\ afl_call'.op = "on_add_metadata"
          /\ afl_call'.ret = Ok(0)
          /\ current = None )
        => LET tcmeta == Unwrap(tc_meta'[afl_call'.id])
           IN  /\ tcmeta.depth = 0
               /\ tcmeta.n_fuzz_entry = last_hash
      ]_vars

\* C15, with the depth the code gives: on_add_metadata of a testcase added
\* while no id is scheduled (a root) succeeds and attaches metadata with
\* depth 1 and n_fuzz_entry = last_hash.
C15_RootHasDepthOne ==
    [][ ( /\ afl_call'.op = "on_add_metadata"
          /\ current = None )
        => /\ afl_call'.ret = Ok(0)
           /\ LET tcmeta == Unwrap(tc_meta'[afl_call'.id])
              IN  /\ tcmeta.depth = 1
                  /\ tcmeta.n_fuzz_entry = last_hash
      ]_vars

\* a second root was added by a scheduler whose last_hash is 2
C15_Witness ==
    /\ afl_call.op = "on_add_metadata"
    /\ afl_call.ret = Ok(0)
    /\ afl_call.id = 2
    /\ parent_id[2] = None
    /\ last_hash = 2
    /\ tc_meta[2] = Some([depth |-> 1, handicap |-> 0, n_fuzz_entry |-> 2])

\* following the parent links from id leads to a testcase with no parent in
\* at most fuel steps
RECURSIVE ReachesRoot(_, _)
ReachesRoot(id, fuel) ==
    IF parent_id[id] = None THEN TRUE
    ELSE IF fuel = 0 \/ Unwrap(parent_id[id]) \notin DOMAIN parent_id THEN FALSE
    ELSE ReachesRoot(Unwrap(parent_id[id]), fuel - 1)

\* C17: after any set_current_scheduled and on_add_metadata calls, each id
\* added once, a testcase that has a parent has a depth greater than its
\* parent's, and the parent links lead to a root: they form no cycle.
C17_DepthGrowsAlongParentChain ==
    \A id \in corpus :
        /\ parent_id[id] # None
            => LET P == Unwrap(parent_id[id])
               IN  /\ P \in corpus
                   /\ tc_meta[P] # None
                   /\ tc_meta[id] # None
                   /\ Unwrap(tc_meta[id]).depth > Unwrap(tc_meta[P]).depth
        /\ ReachesRoot(id, Cardinality(corpus))

\* two testcases were added while the first one was scheduled
C17_Witness ==
    /\ corpus = {1, 2, 3}
    /\ parent_id = <<None, Some(1), Some(1)>>
    /\ Unwrap(tc_meta[1]).depth = 1
    /\ Unwrap(tc_meta[2]).depth = 2
    /\ Unwrap(tc_meta[3]).depth = 2

\* C18: on_next_metadata changes nothing but the handicap of the testcase
\* that is scheduled (corpus.current, whatever its next_id argument is):
\* h becomes h - 4 if h >= 4, h - 1 if 0 < h < 4, and stays 0 if h = 0; with
\* no id scheduled it changes nothing.
C18_OnNextAgesCurrentHandicap ==
    [][ afl_call'.op = "on_next_metadata"
        => /\ UNCHANGED <<corpus, next_id, current, parent_id, last_hash, psmeta, meta>>
           /\ DOMAIN tc_meta' = DOMAIN tc_meta
           /\ \A id \in corpus : Some(id) # current => tc_meta'[id] = tc_meta[id]
           /\ IF current = None
                THEN tc_meta' = tc_meta /\ afl_call'.ret = Ok(0)
                ELSE LET c == Unwrap(current)
                     IN  IF c \in corpus /\ tc_meta[c] # None
                           THEN LET h == Unwrap(tc_meta[c]).handicap
                                IN  /\ afl_call'.ret = Ok(0)
                                    /\ tc_meta'[c] =
                                         Some([Unwrap(tc_meta[c]) EXCEPT !.handicap =
                                                  IF h >= 4 THEN h - 4
                                                  ELSE IF h > 0 THEN h - 1 ELSE 0])
                           ELSE tc_meta' = tc_meta
      ]_vars

\* on_next_metadata(Some(2)) with testcase 1 scheduled took the handicap of
\* testcase 1 from 5 to 1 and left the handicap 5 of testcase 2
C18_Witness ==
    /\ afl_call.op = "on_next_metadata"
    /\ afl_call.arg = Some(2)
    /\ afl_call.old = 5
    /\ current = Some(1)
    /\ Unwrap(tc_meta[1]).handicap = 1
    /\ 2 \in corpus
    /\ tc_meta[2] # None
    /\ Unwrap(tc_meta[2]).handicap = 5

\* C19: while one testcase stays scheduled and on_next_metadata keeps being
\* called, no handicap ever grows, none goes below 0, and the handicap of
\* the scheduled testcase reaches 0 and stays 0.
C19_HandicapDecaysToZero ==
    /\ [][\A id \in corpus :
             Unwrap(tc_meta'[id]).handicap <= Unwrap(tc_meta[id]).handicap]_vars
    /\ [](\A id \in corpus : Unwrap(tc_meta[id]).handicap >= 0)
    /\ <>[](Unwrap(tc_meta[Unwrap(current)]).handicap = 0)

\* the last of the calls took the handicap of the scheduled testcase from 1 to 0
C19_Witness ==
    /\ afl_call.op = "on_next_metadata"
    /\ afl_call.ret = Ok(0)
    /\ afl_call.old = 1
    /\ current # None
    /\ Unwrap(tc_meta[Unwrap(current)]).handicap = 0

\* C20: over any on_evaluation_metadata calls no bucket of n_fuzz ever
\* decreases or exceeds u32::MAX, and a bucket that holds u32::MAX stays at
\* u32::MAX when it is incremented.
C20_NFuzzSaturates ==
    [][ /\ DOMAIN psmeta'.n_fuzz = DOMAIN psmeta.n_fuzz
        /\ \A i \in DOMAIN psmeta.n_fuzz :
              /\ psmeta'.n_fuzz[i] >= psmeta.n_fuzz[i]
              /\ psmeta'.n_fuzz[i] <= U32_MAX
              /\ psmeta.n_fuzz[i] = U32_MAX => psmeta'.n_fuzz[i] = U32_MAX
      ]_vars

\* a bucket that held u32::MAX was incremented and holds u32::MAX
C20_Witness ==
    /\ afl_call.op = "on_evaluation_metadata"
    /\ afl_call.ret = Ok(0)
    /\ afl_call.old = U32_MAX
    /\ psmeta.n_fuzz[last_hash + 1] = U32_MAX

\* C21: a successful on_evaluation_metadata with observer hash H increments
\* (up to u32::MAX) the bucket H mod n_fuzz.len() and no other, keeps the
\* length of n_fuzz, and sets last_hash to H mod n_fuzz.len(), an index of
\* n_fuzz.
C21_EvaluationCountsOneBucket ==
    [][ ( /\ afl_call'.op = "on_evaluation_metadata"
          /\ afl_call'.ret = Ok(0) )
        => LET H   == Unwrap(afl_call'.arg)
               len == Len(psmeta.n_fuzz)
           IN  /\ len > 0
               /\ Len(psmeta'.n_fuzz) = len
               /\ \A i \in 0..(len - 1) :
                     psmeta'.n_fuzz[i + 1] =
                        IF i # H % len THEN psmeta.n_fuzz[i + 1]
                        ELSE IF psmeta.n_fuzz[i + 1] = U32_MAX THEN U32_MAX
                        ELSE psmeta.n_fuzz[i + 1] + 1
               /\ last_hash' = H % len
               /\ last_hash' \in 0..(Len(psmeta'.n_fuzz) - 1)
      ]_vars

\* the hash 3 was folded into the bucket 1 of two, which went from 1 to 2
\* while the bucket 0 kept its count
C21_Witness ==
    /\ afl_call.op = "on_evaluation_metadata"
    /\ afl_call.ret = Ok(0)
    /\ afl_call.arg = Some(3)
    /\ afl_call.old = 1
    /\ last_hash = 1
    /\ psmeta.n_fuzz = <<1, 2>>

---------------------------------------------------------------------------
(* A claim about the Min reducer on a fresh feedback *)

\* C22: a MapFeedback with the Min reducer whose history map was built by
\* new() (all T::default() = 0) over unsigned cells: every is_interesting
\* call on an observer map of the history's length returns 0, and the
\* history map stays all zero whatever is called.
C22_MinFromZeroNeverFires ==
    (reducer = "Min" /\ ctor.fn = "new")
        => /\ history_map = [i \in 1..ctor.map_size |-> 0]
           /\ ( /\ call.op = "is_interesting"
                /\ call.observer.some
                /\ Len(call.observer.map) = Len(history_map) )
              => call.ret = Ok(0)

\* history [0, 0], Min reducer, an observation with the largest value in
\* both cells: 0 is returned and the history is still [0, 0]
C22_Witness ==
    /\ reducer = "Min"
    /\ ctor = [fn |-> "new", map_size |-> 2]
    /\ call.op = "is_interesting"
    /\ call.observer = SomeObserver(<<MaxVal, MaxVal>>)
    /\ call.ret = Ok(0)
    /\ history_map = <<0, 0>>

---------------------------------------------------------------------------
(* A claim about the weights next() samples by *)

\* C23: next() of the probability scheduler never returns an id whose
\* weight in map is 0 while another id in map has a positive weight,
\* whatever the draw and the order map iterates in.
C23_NextSkipsZeroWeight ==
    ( /\ scheduler = "Probability"
      /\ sched_call.op = "next"
      /\ sched_call.ret.kind = "Ok"
      /\ sched_call.ret.val \in DOMAIN meta.map
      /\ \E id \in DOMAIN meta.map : meta.map[id] > 0 )
    => meta.map[sched_call.ret.val] # 0

===========================================================================
